---- MODULE Spec2Model ----
(***************************************************************************)
(* Model of the Pylontech battery monitor (monitor.py): the framed         *)
(* command/response engine (network_command, serial_command), the          *)
(* fixed-width table parser (get_power) and the poll loop (main).          *)
(*                                                                         *)
(* Bytes are numbers 0..255, text is a sequence of one-character strings;  *)
(* str.encode() and bytes.decode() convert between the two.                *)
(***************************************************************************)
EXTENDS Integers, Sequences, FiniteSets, TLC

(***************************************************************************)
(* Bounds of the model.                                                    *)
(***************************************************************************)
\* Largest retries= argument a direct call of the command functions is given.
MaxRetries == 1

\* Zero-byte reads the character device delivers at end-of-file before the
\* model stops offering them (the code itself puts no bound on them).
MaxZeroReads == 7

(***************************************************************************)
(* Protocol constants.                                                     *)
(***************************************************************************)
MARK_PROMPT == <<13, 112, 121, 108, 111, 110, 62>>

MARK_BEGIN == <<10, 13, 64, 13, 13, 10>>

MARK_END == <<13, 10, 13, 67, 111, 109, 109, 97, 110, 100, 32, 99, 111, 109, 112, 108, 101, 116, 101, 100, 32, 115, 117, 99, 99, 101, 115, 115, 102, 117, 108, 108, 121, 13, 10, 13, 36, 36, 13, 10>> \o MARK_PROMPT

\* if timeout_counter > 5: raise
MaxIdle == 5

\* sock.recv(256), os.read(file, 256)
RecvSize == 256

\* retries=1, the default of network_command and serial_command
DefaultRetries == 1

(***************************************************************************)
(* Sequences, with Python's conventions (0-based, half-open slices).       *)
(***************************************************************************)
Min(a, b) == IF a < b THEN a ELSE b

Max(a, b) == IF a > b THEN a ELSE b

\* s[lo:hi] with negative indices counted from the end and both clamped.
PySlice(s, lo, hi) ==
    LET n == Len(s)
        l == IF lo < 0 THEN Max(0, lo + n) ELSE Min(lo, n)
        h == IF hi < 0 THEN Max(0, hi + n) ELSE Min(hi, n)
    IN  IF l < h THEN SubSeq(s, l + 1, h) ELSE <<>>

\* s.startswith(p)
StartsWith(s, p) ==
    /\ Len(p) <= Len(s)
    /\ \A j \in 1..Len(p) : s[j] = p[j]

\* s.endswith(p)
EndsWith(s, p) ==
    /\ Len(p) <= Len(s)
    /\ \A j \in 1..Len(p) : s[Len(s) - Len(p) + j] = p[j]

\* m in s
Contains(s, m) ==
    \E i \in 0..(Len(s) - Len(m)) : \A j \in 1..Len(m) : s[i + j] = m[j]

\* bytes.rstrip(): trailing ASCII whitespace removed.
ByteSpace == {9, 10, 11, 12, 13, 32}

RStripBytes(s) ==
    LET keep == {i \in 1..Len(s) : s[i] \notin ByteSpace}
    IN  IF keep = {} THEN <<>>
        ELSE SubSeq(s, 1, CHOOSE i \in keep : \A j \in keep : j <= i)

(***************************************************************************)
(* str.encode() / bytes.decode() (UTF-8) on the characters the model uses: *)
(* tab, line feed, carriage return and printable ASCII. A byte >= 128 that *)
(* starts no valid sequence makes decode() raise. The grave accent (96)    *)
(* cannot be written in a string here: it is left out of AsciiCodes and    *)
(* no input of the model uses it.                                          *)
(***************************************************************************)
Printable == <<" ", "!", "\"", "#", "$", "%", "&", "'", "(", ")", "*", "+", ",", "-", ".", "/", "0", "1", "2", "3", "4", "5", "6", "7", "8", "9", ":", ";", "<", "=", ">", "?", "@", "A", "B", "C", "D", "E", "F", "G", "H", "I", "J", "K", "L", "M", "N", "O", "P", "Q", "R", "S", "T", "U", "V", "W", "X", "Y", "Z", "[", "\\", "]", "^", "_", "?", "a", "b", "c", "d", "e", "f", "g", "h", "i", "j", "k", "l", "m", "n", "o", "p", "q", "r", "s", "t", "u", "v", "w", "x", "y", "z", "{", "|", "}", "~">>

AsciiCodes == {9, 10, 13} \cup (32..95) \cup (97..126)

Chr(b) ==
    CASE b = 9  -> "\t"
      [] b = 10 -> "\n"
      [] b = 13 -> "\r"
      [] OTHER  -> Printable[b - 31]

Ord(c) == CHOOSE b \in AsciiCodes : Chr(b) = c

Encode(text) == [i \in 1..Len(text) |-> Ord(text[i])]

Decodable(bytes) == \A i \in 1..Len(bytes) : bytes[i] \in AsciiCodes

Decode(bytes) == [i \in 1..Len(bytes) |-> Chr(bytes[i])]

(***************************************************************************)
(* The device. It answers a command with one of a few byte sequences; the  *)
(* transport hands them over in chunks of any size, with idle reads in     *)
(* between. Every attempt talks over a fresh channel.                      *)
(***************************************************************************)
CmdPwr == <<"p", "w", "r">>

CmdProbe == <<>>

\* command + BEGIN + payload + END
Frame(command, payload) == Encode(command) \o MARK_BEGIN \o payload \o MARK_END

TextOk == <<"o", "k">>

TextTable == <<"B", "a", "s", "e", ".", "S", "t", " ", "P", "o", "w", "e", "r", " ", "V", "o", "l", "t", "\n", "N", "o", "r", "m", "a", "l", " ", " ", "1", "2", "0", " ", " ", " ", "4", "8", "0">>

\* A table without a Base.St column.
TextNoStatus == <<"P", "o", "w", "e", "r", "\n", "1", "2", "0", " ">>

\* A payload that holds the END marker itself.
PayloadWithEnd == <<97>> \o MARK_END \o <<98>>

\* A payload that starts with END less its first two bytes: the last two
\* bytes of BEGIN complete an END that ends inside the payload.
PayloadTailOfEnd == SubSeq(MARK_END, 3, Len(MARK_END)) \o <<98>>

\* A payload that holds the bare prompt.
PayloadWithPrompt == <<97>> \o MARK_PROMPT \o <<98>>

\* A payload that is no valid UTF-8.
PayloadUndecodable == <<111, 255>>

\* The payloads of the well-formed answers.
Payloads == {Encode(TextTable), Encode(TextOk), Encode(TextNoStatus), PayloadWithEnd, PayloadTailOfEnd, PayloadWithPrompt, PayloadUndecodable}

WellFormed == {Frame(CmdPwr, p) : p \in Payloads}

\* Trailing bytes after END; trailing whitespace after END; no command echo;
\* the tail of BEGIN doubling as the head of END; an answer cut short; silence.
Malformed ==
    { Frame(CmdPwr, Encode(TextOk)) \o <<120>>,
      Frame(CmdPwr, Encode(TextOk)) \o <<13, 10>>,
      MARK_BEGIN \o Encode(TextOk) \o MARK_END,
      Encode(CmdPwr) \o SubSeq(MARK_BEGIN, 1, 4) \o MARK_END,
      Encode(CmdPwr) \o MARK_BEGIN \o Encode(TextOk),
      <<>> }

\* What the device may send back after an empty line: a fresh prompt, stale
\* bytes without a prompt, or nothing.
ProbeAnswers == { <<10>> \o MARK_PROMPT, <<120, 121>>, <<>> }

Answers(command) == IF command = CmdProbe THEN ProbeAnswers ELSE WellFormed \cup Malformed

(***************************************************************************)
(* State.                                                                  *)
(***************************************************************************)
VARIABLES
    mode,             \* "network" (network_command) or "serial" (serial_command)
    stack,            \* call stack of the command function, innermost last
    sock,             \* the running call's socket / file descriptor
    response,         \* the running call's receive buffer
    timeout_counter,  \* the running call's idle counter
    pending,          \* what the running call is about to do: return, raise
    wire,             \* bytes of the device's answer not yet read
    empty_reads,      \* reads of the running call that yielded no data
    handles,          \* sockets / file descriptors currently open
    log,              \* the calls made so far, in order, with their outcome
    stdout,           \* the lines printed so far
    result,           \* outcome of the outermost call
    mpc,              \* where main / get_power stand
    presponse,        \* get_power: response (text)
    rowno,            \* get_power: index in lines of the next data row
    colstart,         \* get_power: column boundaries
    headers,          \* get_power: header cells
    items,            \* get_power: records collected so far
    published         \* what send_data handed to the MQTT client last

vars == <<mode, stack, sock, response, timeout_counter, pending, wire, empty_reads, handles, log, stdout, result, mpc, presponse, rowno, colstart, headers, items, published>>

engine == <<mode, stack, sock, response, timeout_counter, pending, wire, empty_reads, handles, log, stdout, result>>

parser == <<presponse, rowno, colstart, headers, items>>

NoPending == [kind |-> "none", value |-> <<>>, cause |-> "none"]

Exc(cause) == [kind |-> "exc", value |-> <<>>, cause |-> cause]

Top == stack[Len(stack)]

SetTop(f) == [stack EXCEPT ![Len(stack)] = f]

Running(pc) == Len(stack) > 0 /\ Top.pc = pc

\* mark_end = MARK_END if checkframe else MARK_PROMPT
mark_end(checkframe) == IF checkframe THEN MARK_END ELSE MARK_PROMPT

\* print(f"Sending command {command}")
Sending(command) == [text |-> "Sending command", args |-> <<command>>]

\* print(f"Error sending command {command}, {retries} retries remaining")
Retrying(command, retries) == [text |-> "Error sending command, retries remaining", args |-> <<command, retries>>]

\* print("power", data, "\n")
Power(data) == [text |-> "power", args |-> <<data>>]

\* A call of network_command / serial_command: a new frame, its locals
\* unbound, and the status line "Sending command ...", printed after the
\* lines printed before. The locals of the call that is suspended meanwhile
\* are never read again and are not kept.
Call(stk, lg, printed, command, retries, checkframe, via) ==
    /\ stdout' = Append(printed, Sending(command))
    /\ stack' = Append(stk, [command |-> command, retries |-> retries, checkframe |-> checkframe, pc |-> "open"])
    /\ sock' = "unbound"
    /\ log' = Append(lg, [command |-> command, retries |-> retries, checkframe |-> checkframe, via |-> via, outcome |-> "run", value |-> <<>>])
    /\ response' = <<>>
    /\ timeout_counter' = 0
    /\ empty_reads' = 0
    /\ wire' = <<>>
    /\ pending' = NoPending

\* The running call leaves its try block with an exception.
Fail(cause) ==
    /\ stack' = SetTop([Top EXCEPT !.pc = "except"])
    /\ pending' = Exc(cause)
    /\ UNCHANGED sock

(***************************************************************************)
(* network_command / serial_command. The two functions differ in how they  *)
(* open, write and read; the rest is the same text.                        *)
(***************************************************************************)

\* sock = socket.socket(...); sock.connect(device)
Open_network ==
    /\ mode = "network"
    /\ Running("open")
    /\ \/ \* socket() raises: sock stays unbound
          /\ Fail("connect")
          /\ UNCHANGED handles
       \/ \* connect() raises: the socket exists
          /\ stack' = SetTop([Top EXCEPT !.pc = "except"])
          /\ sock' = "open"
          /\ pending' = Exc("connect")
          /\ handles' = handles + 1
       \/ /\ stack' = SetTop([Top EXCEPT !.pc = "send"])
          /\ sock' = "open"
          /\ handles' = handles + 1
          /\ UNCHANGED pending
    /\ UNCHANGED <<mode, response, timeout_counter, wire, empty_reads, log, stdout, result, mpc, published>>
    /\ UNCHANGED parser

\* file = os.open(device, os.O_RDWR | os.O_NONBLOCK)
Open_serial ==
    /\ mode = "serial"
    /\ Running("open")
    /\ \/ /\ Fail("connect")
          /\ UNCHANGED handles
       \/ /\ stack' = SetTop([Top EXCEPT !.pc = "send"])
          /\ sock' = "open"
          /\ handles' = handles + 1
          /\ UNCHANGED pending
    /\ UNCHANGED <<mode, response, timeout_counter, wire, empty_reads, log, stdout, result, mpc, published>>
    /\ UNCHANGED parser

\* The command is on the wire: the device answers, and the read loop starts
\* with response = b"" and timeout_counter = 0.
Sent ==
    /\ \E a \in Answers(Top.command) : wire' = a
    /\ stack' = SetTop([Top EXCEPT !.pc = "read"])
    /\ response' = <<>>
    /\ timeout_counter' = 0
    /\ UNCHANGED <<pending, sock>>

\* sock.sendall(command_bytes + b"\n")
Send_network ==
    /\ mode = "network"
    /\ Running("send")
    /\ \/ Sent
       \/ /\ Fail("write")
          /\ UNCHANGED <<response, timeout_counter, wire>>
    /\ UNCHANGED <<mode, empty_reads, handles, log, stdout, result, mpc, published>>
    /\ UNCHANGED parser

\* select([], [file], [], 1); os.write(file, command_bytes + b"\n")
Send_serial ==
    /\ mode = "serial"
    /\ Running("send")
    /\ \/ Sent
       \/ \* not writable within the second
          /\ Fail("write_timeout")
          /\ UNCHANGED <<response, timeout_counter, wire>>
       \/ \* os.write raises
          /\ Fail("write")
          /\ UNCHANGED <<response, timeout_counter, wire>>
    /\ UNCHANGED <<mode, empty_reads, handles, log, stdout, result, mpc, published>>
    /\ UNCHANGED parser

\* while mark_end not in response
Reading == Running("read") /\ ~Contains(response, mark_end(Top.checkframe))

\* if timeout_counter > 5
TimedOut(counter) == counter > MaxIdle

\* A read that delivers k bytes: response += data
ReadData ==
    \E k \in 1..Min(RecvSize, Len(wire)) :
        /\ response' = response \o SubSeq(wire, 1, k)
        /\ wire' = SubSeq(wire, k + 1, Len(wire))
        /\ UNCHANGED <<stack, sock, pending, timeout_counter, empty_reads>>

\* A read that counts as idle: timeout_counter += 1; continue
ReadIdle ==
    /\ timeout_counter' = timeout_counter + 1
    /\ empty_reads' = empty_reads + 1
    /\ UNCHANGED <<stack, sock, pending, response, wire>>

\* One turn of the read loop of network_command.
Read_network ==
    /\ mode = "network"
    /\ Reading
    /\ IF TimedOut(timeout_counter)
       THEN /\ Fail("timeout")
            /\ UNCHANGED <<response, wire, timeout_counter, empty_reads>>
       ELSE \/ ReadData
            \/ \* recv returns b"": the peer has closed and nothing is left
               /\ wire = <<>>
               /\ ReadIdle
            \/ \* socket.timeout
               ReadIdle
            \/ \* recv raises another error
               /\ Fail("read")
               /\ UNCHANGED <<response, wire, timeout_counter, empty_reads>>
    /\ UNCHANGED <<mode, handles, log, stdout, result, mpc, published>>
    /\ UNCHANGED parser

\* One turn of the read loop of serial_command.
Read_serial ==
    /\ mode = "serial"
    /\ Reading
    /\ IF TimedOut(timeout_counter)
       THEN /\ Fail("timeout")
            /\ UNCHANGED <<response, wire, timeout_counter, empty_reads>>
       ELSE \/ \* select: readable, os.read delivers data
               ReadData
            \/ \* select: readable at end-of-file, os.read returns b"":
               \* response += b"", and the counter is left alone
               /\ wire = <<>>
               /\ empty_reads - timeout_counter < MaxZeroReads
               /\ empty_reads' = empty_reads + 1
               /\ UNCHANGED <<stack, sock, pending, response, wire, timeout_counter>>
            \/ \* select: not readable within the second
               ReadIdle
            \/ \* os.read raises
               /\ Fail("read")
               /\ UNCHANGED <<response, wire, timeout_counter, empty_reads>>
    /\ UNCHANGED <<mode, handles, log, stdout, result, mpc, published>>
    /\ UNCHANGED parser

\* Mutation of FrameOk: either end of the frame is enough.
FrameOk_Either(command, r) ==
    \/ StartsWith(r, Encode(command) \o MARK_BEGIN)
    \/ EndsWith(r, MARK_END)

\* response.startswith(command.encode() + MARK_BEGIN) and response.endswith(mark_end)
FrameOk(command, r) ==
    /\ StartsWith(r, Encode(command) \o MARK_BEGIN)
    /\ EndsWith(r, MARK_END)

\* Mutation of Strip: the prompt's length is cut off instead of END's.
Strip_PromptOnly(command, r) == PySlice(r, Len(command) + Len(MARK_BEGIN), 0 - Len(MARK_PROMPT))

\* response[len(command) + len(MARK_BEGIN):-len(mark_end)]
Strip(command, r) == PySlice(r, Len(command) + Len(MARK_BEGIN), 0 - Len(MARK_END))

\* What follows the read loop: rstrip, the frame check, the slice, decode().
\* The value is what the call returns, or the exception it raises.
Unframe(command, checkframe, buffer) ==
    LET r == RStripBytes(buffer)
        body == IF checkframe THEN Strip(command, r) ELSE r
    IN  IF checkframe /\ ~FrameOk(command, r)
        THEN Exc("corrupt")
        ELSE IF Decodable(body)
             THEN [kind |-> "return", value |-> Decode(body), cause |-> "none"]
             ELSE Exc("decode")

SetOutcome(outcome, value) ==
    [log EXCEPT ![Len(log)].outcome = outcome, ![Len(log)].value = value]

\* The terminator is in the buffer: the read loop is over.
Finish ==
    /\ Running("read")
    /\ Contains(response, mark_end(Top.checkframe))
    /\ LET out == Unframe(Top.command, Top.checkframe, response)
       IN  /\ pending' = out
           /\ stack' = SetTop([Top EXCEPT !.pc = IF out.kind = "return" THEN "finally" ELSE "except"])
           /\ log' = IF out.kind = "return" THEN SetOutcome("ok", out.value) ELSE log
    /\ UNCHANGED <<mode, sock, response, timeout_counter, wire, empty_reads, handles, stdout, result, mpc, published>>
    /\ UNCHANGED parser

\* Mutation of Exhausted: the last retry is never spent.
Exhausted_Early(retries) == retries <= 1

\* if not retries
Exhausted(retries) == retries = 0

\* except Exception: if not retries: raise RuntimeError("Error sending command")
\* The new exception carries the one it replaces as its context.
Except ==
    /\ Running("except")
    /\ pending' = IF Exhausted(Top.retries)
                  THEN [kind |-> "raise", value |-> Top.command, cause |-> pending.cause]
                  ELSE NoPending
    /\ stack' = SetTop([Top EXCEPT !.pc = "finally"])
    /\ log' = SetOutcome("fail", <<>>)
    /\ UNCHANGED <<mode, sock, response, timeout_counter, wire, empty_reads, handles, stdout, result, mpc, published>>
    /\ UNCHANGED parser

\* Mutation of Release: the descriptor is never given back.
Release_Leak(n) == n

\* sock.close() / os.close(file): the descriptor is released, also when the
\* call reports an error.
Release(n) == n - 1

\* finally: try: close() except Exception: pass
\* Closing an unbound name raises NameError, which is swallowed like any
\* error of close() itself.
Finally ==
    /\ Running("finally")
    /\ LET next == CASE pending.kind = "return" -> "return"
                     [] pending.kind = "raise"  -> "raise"
                     [] OTHER                   -> "recover"
       IN  /\ stack' = SetTop([Top EXCEPT !.pc = next])
           /\ IF sock = "open"
              THEN /\ handles' = Release(handles)
                   /\ sock' \in {"closed", "close_error"}
              ELSE UNCHANGED <<handles, sock>>
    /\ UNCHANGED <<mode, response, timeout_counter, pending, wire, empty_reads, log, stdout, result, mpc, published>>
    /\ UNCHANGED parser

\* network_command(device, "", retries=0, checkframe=False)
ProbeArgs == [command |-> CmdProbe, retries |-> 0, checkframe |-> FALSE]

\* print("Error sending command ..., n retries remaining"); time.sleep(0.1);
\* then the call of the recovery probe.
Recover ==
    /\ Running("recover")
    /\ Call(SetTop([Top EXCEPT !.pc = "probe_wait"]), log, Append(stdout, Retrying(Top.command, Top.retries)), ProbeArgs.command, ProbeArgs.retries, ProbeArgs.checkframe, "probe")
    /\ UNCHANGED <<mode, handles, result, mpc, published>>
    /\ UNCHANGED parser

\* return network_command(device, command, retries=retries-1): checkframe is
\* not passed on, so the retry runs with its default, True.
RetryArgs(f) == [command |-> f.command, retries |-> f.retries - 1, checkframe |-> TRUE]

Retry ==
    /\ Running("retry")
    /\ Call(SetTop([Top EXCEPT !.pc = "retry_wait"]), log, stdout, RetryArgs(Top).command, RetryArgs(Top).retries, RetryArgs(Top).checkframe, "retry")
    /\ UNCHANGED <<mode, handles, result, mpc, published>>
    /\ UNCHANGED parser

\* Mutation of Resume: a probe that raises is not caught.
Resume_ProbeRaises(caller, out) ==
    IF caller.pc = "probe_wait" /\ out.kind = "return"
    THEN [frame |-> [caller EXCEPT !.pc = "retry"], pending |-> NoPending]
    ELSE [frame |-> [caller EXCEPT !.pc = out.kind], pending |-> out]

\* Mutation of Resume: a probe that returns ends the call with its value.
Resume_ProbeReturns(caller, out) ==
    IF caller.pc = "probe_wait" /\ out.kind = "raise"
    THEN [frame |-> [caller EXCEPT !.pc = "retry"], pending |-> NoPending]
    ELSE [frame |-> [caller EXCEPT !.pc = out.kind], pending |-> out]

\* The caller's frame once the call above it is over. A probe's value or
\* exception is dropped (try: ... except Exception: pass); a retry's is the
\* caller's own.
Resume(caller, out) ==
    IF caller.pc = "probe_wait"
    THEN [frame |-> [caller EXCEPT !.pc = "retry"], pending |-> NoPending]
    ELSE [frame |-> [caller EXCEPT !.pc = out.kind], pending |-> out]

\* The running call returns or raises into the call that made it.
Unwind ==
    /\ Len(stack) > 1
    /\ Top.pc \in {"return", "raise"}
    /\ LET r == Resume(stack[Len(stack) - 1], pending)
       IN  /\ stack' = [SubSeq(stack, 1, Len(stack) - 1) EXCEPT ![Len(stack) - 1] = r.frame]
           /\ pending' = r.pending
    /\ UNCHANGED <<mode, sock, response, timeout_counter, wire, empty_reads, handles, log, stdout, result, mpc, published>>
    /\ UNCHANGED parser

\* The outermost call returns or raises to a caller outside the module.
Exit ==
    /\ mpc = "call"
    /\ Len(stack) = 1
    /\ Top.pc \in {"return", "raise"}
    /\ stack' = <<>>
    /\ result' = pending
    /\ pending' = NoPending
    /\ mpc' = "done"
    /\ UNCHANGED <<mode, sock, response, timeout_counter, wire, empty_reads, handles, log, stdout, published>>
    /\ UNCHANGED parser

(***************************************************************************)
(* Text, as get_power handles it.                                          *)
(***************************************************************************)
TextSpace == {" ", "\t", "\n", "\r"}

\* str.rstrip()
RStripText(s) ==
    LET keep == {i \in 1..Len(s) : s[i] \notin TextSpace}
    IN  IF keep = {} THEN <<>>
        ELSE SubSeq(s, 1, CHOOSE i \in keep : \A j \in keep : j <= i)

\* str.strip()
StripText(s) ==
    LET keep == {i \in 1..Len(s) : s[i] \notin TextSpace}
    IN  IF keep = {} THEN <<>>
        ELSE SubSeq(s, CHOOSE i \in keep : \A j \in keep : i <= j,
                       CHOOSE i \in keep : \A j \in keep : j <= i)

\* First index >= i of s whose character is (is not) a space; Len(s)+1 if none.
RECURSIVE SkipWhile(_, _, _)
SkipWhile(s, i, spaces) ==
    IF i > Len(s) \/ ((s[i] = " ") # spaces) THEN i ELSE SkipWhile(s, i + 1, spaces)

\* response.split("\n"), scanning from index i
RECURSIVE SplitFrom(_, _)
SplitFrom(s, i) ==
    LET nl == {j \in i..Len(s) : s[j] = "\n"}
    IN  IF nl = {} THEN <<SubSeq(s, i, Len(s))>>
        ELSE LET j == CHOOSE x \in nl : \A y \in nl : x <= y
             IN  <<SubSeq(s, i, j - 1)>> \o SplitFrom(s, j + 1)

SplitLines(s) == SplitFrom(s, 1)

\* re.findall(r"([^ ]+ +)", s), scanning from index i: each run of non-spaces
\* that spaces follow, with all of those spaces. A run at the end of s that
\* no space follows matches nothing, and leading spaces belong to no match.
RECURSIVE FindAll(_, _)
FindAll(s, i) ==
    LET a == SkipWhile(s, i, TRUE)
        b == SkipWhile(s, a, FALSE)
        c == SkipWhile(s, b, TRUE)
    IN  IF a > Len(s) \/ b > Len(s) THEN <<>>
        ELSE <<SubSeq(s, a, c - 1)>> \o FindAll(s, c)

\* colstart = [0]; for m in re.findall(...): colstart.append(colstart[-1] + len(m))
RECURSIVE Accumulate(_, _)
Accumulate(acc, ms) ==
    IF ms = <<>> THEN acc
    ELSE Accumulate(Append(acc, acc[Len(acc)] + Len(ms[1])), Tail(ms))

ColStart(header) == Accumulate(<<0>>, FindAll(RStripText(header), 1))

\* How far getcell moves an offset left when the character before it is not
\* a space: offset -= 1
Nudge(offset) == offset - 1

\* getcell(line, cellno): the cell's text, or IndexError (ok = FALSE) when
\* line[offset2-1] indexes an empty line. cellno counts from 0; line[-1] is
\* the last character.
getcell(cols, line, cellno) ==
    LET linelen == Len(line)
        o1 == Min(linelen, cols[cellno + 1])
        offset1 == IF o1 # 0 /\ line[o1] # " " THEN Nudge(o1) ELSE o1
        o2 == Min(linelen, IF cellno + 1 < Len(cols) THEN cols[cellno + 2] ELSE Len(line))
        at == IF o2 - 1 < 0 THEN o2 - 1 + linelen ELSE o2 - 1
    IN  IF at < 0 \/ at >= linelen
        THEN [ok |-> FALSE, v |-> <<>>]
        ELSE LET offset2 == IF line[at + 1] # " " THEN Nudge(o2) ELSE o2
             IN  [ok |-> TRUE, v |-> StripText(PySlice(line, offset1, offset2))]

\* [getcell(line, i) for i in range(len(colstart))]
Cells(cols, line) == [i \in 1..Len(cols) |-> getcell(cols, line, i - 1)]

CellsOk(cells) == \A i \in 1..Len(cells) : cells[i].ok

(***************************************************************************)
(* Values of a record: text or an integer.                                 *)
(***************************************************************************)
StrVal(s) == [t |-> "str", s |-> s, n |-> 0]

IntVal(n) == [t |-> "int", s |-> <<>>, n |-> n]

Digits == <<"0", "1", "2", "3", "4", "5", "6", "7", "8", "9">>

DigitSet == {Digits[i] : i \in 1..Len(Digits)}

DigitValue(c) == (CHOOSE i \in 1..Len(Digits) : Digits[i] = c) - 1

RECURSIVE DecimalValue(_)
DecimalValue(ds) ==
    IF ds = <<>> THEN 0
    ELSE 10 * DecimalValue(SubSeq(ds, 1, Len(ds) - 1)) + DigitValue(ds[Len(ds)])

\* int(text): surrounding whitespace is dropped, one sign is allowed, then
\* decimal digits, with single underscores between digits. ok = FALSE stands
\* for ValueError.
PyInt(text) ==
    LET s == StripText(text)
        signed == s # <<>> /\ s[1] \in {"+", "-"}
        body == IF signed THEN Tail(s) ELSE s
        wellformed ==
            /\ body # <<>>
            /\ \A i \in 1..Len(body) : body[i] \in DigitSet \cup {"_"}
            /\ body[1] # "_" /\ body[Len(body)] # "_"
            /\ \A i \in 1..(Len(body) - 1) : ~(body[i] = "_" /\ body[i + 1] = "_")
        digits == SelectSeq(body, LAMBDA c : c # "_")
    IN  IF ~wellformed THEN [ok |-> FALSE, n |-> 0]
        ELSE [ok |-> TRUE, n |-> IF signed /\ s[1] = "-" THEN 0 - DecimalValue(digits) ELSE DecimalValue(digits)]

(***************************************************************************)
(* get_power: the rows of the table as records.                            *)
(***************************************************************************)
TextBaseSt == <<"B", "a", "s", "e", ".", "S", "t">>

TextAbsent == <<"A", "b", "s", "e", "n", "t">>

TextCoulomb == <<"C", "o", "u", "l", "o", "m", "b">>

TextPower == <<"P", "o", "w", "e", "r">>

TextVolt == <<"V", "o", "l", "t">>

\* ("Power", "Volt", "Curr", "Tempr", "Tlow", "Thigh", "Vlow", "Vhigh", "MosTempr")
NumericFields ==
    << TextPower, TextVolt, <<"C", "u", "r", "r">>, <<"T", "e", "m", "p", "r">>,
       <<"T", "l", "o", "w">>, <<"T", "h", "i", "g", "h">>, <<"V", "l", "o", "w">>,
       <<"V", "h", "i", "g", "h">>, <<"M", "o", "s", "T", "e", "m", "p", "r">> >>

\* dict(zip(headers, values)): a later column of the same name wins.
Zip(hs, vs) ==
    LET n == Min(Len(hs), Len(vs))
    IN  [k \in {hs[i] : i \in 1..n} |->
            StrVal(vs[CHOOSE i \in 1..n : hs[i] = k /\ \A j \in 1..n : hs[j] = k => j <= i])]

\* if item["Base.St"] == "Absent": continue
IsAbsent(item) == item[TextBaseSt] = StrVal(TextAbsent)

\* try: item[k] = int(item[k]) except Exception: pass
CoerceInt(item, k) ==
    IF k \notin DOMAIN item \/ item[k].t # "str" THEN item
    ELSE LET r == PyInt(item[k].s)
         IN  IF r.ok THEN [item EXCEPT ![k] = IntVal(r.n)] ELSE item

RECURSIVE CoerceAll(_, _)
CoerceAll(item, ks) ==
    IF ks = <<>> THEN item ELSE CoerceAll(CoerceInt(item, ks[1]), Tail(ks))

\* try: item["Coulomb"] = int(item["Coulomb"][:-1]) except Exception: pass
CoerceCoulomb(item) ==
    IF TextCoulomb \notin DOMAIN item \/ item[TextCoulomb].t # "str" THEN item
    ELSE LET r == PyInt(PySlice(item[TextCoulomb].s, 0, 0 - 1))
         IN  IF r.ok THEN [item EXCEPT ![TextCoulomb] = IntVal(r.n)] ELSE item

Coerce(item) == CoerceCoulomb(CoerceAll(item, NumericFields))

Lines == SplitLines(presponse)

NoResult == [kind |-> "none", value |-> <<>>, cause |-> "none"]

\* Mutation of ParseError: the error does not carry the response text.
ParseError_NoText ==
    /\ mpc' = "crashed"
    /\ result' = [kind |-> "raise", value |-> <<>>, cause |-> "parse"]

\* Mutation of ParseError: the error is swallowed and the loop goes on.
ParseError_Swallowed ==
    /\ mpc' = "loop"
    /\ result' = [kind |-> "raise", value |-> presponse, cause |-> "parse"]

\* except Exception as e: raise RuntimeError(f"Error parsing power ({response})") from e
ParseError ==
    /\ mpc' = "crashed"
    /\ result' = [kind |-> "raise", value |-> presponse, cause |-> "parse"]

\* lines = response.split("\n"); colstart from the header; headers
ParseHeader ==
    /\ mpc = "header"
    /\ LET cols == ColStart(Lines[1])
           hs == Cells(cols, Lines[1])
       IN  IF CellsOk(hs)
           THEN /\ colstart' = cols
                /\ headers' = [i \in 1..Len(hs) |-> hs[i].v]
                /\ rowno' = 1
                /\ items' = <<>>
                /\ mpc' = "rows"
                /\ UNCHANGED result
           ELSE /\ ParseError
                /\ UNCHANGED <<colstart, headers, rowno, items>>
    /\ UNCHANGED <<mode, stack, sock, response, timeout_counter, pending, wire, empty_reads, handles, log, stdout, presponse, published>>

\* for line in lines[1:]: one turn of the loop
ParseRow ==
    /\ mpc = "rows"
    /\ rowno < Len(Lines)
    /\ LET values == Cells(colstart, Lines[rowno + 1])
       IN  IF ~CellsOk(values)
           THEN /\ ParseError
                /\ UNCHANGED <<rowno, items>>
           ELSE LET item == Zip(headers, [i \in 1..Len(values) |-> values[i].v])
                IN  IF TextBaseSt \notin DOMAIN item
                    THEN /\ ParseError
                         /\ UNCHANGED <<rowno, items>>
                    ELSE /\ items' = IF IsAbsent(item) THEN items ELSE Append(items, Coerce(item))
                         /\ rowno' = rowno + 1
                         /\ UNCHANGED <<mpc, result>>
    /\ UNCHANGED <<mode, stack, sock, response, timeout_counter, pending, wire, empty_reads, handles, log, stdout, presponse, colstart, headers, published>>

\* return items; back in main: data = json.dumps(...); print("power", data)
ParseReturn ==
    /\ mpc = "rows"
    /\ rowno = Len(Lines)
    /\ mpc' = "publish"
    /\ stdout' = Append(stdout, Power(items))
    /\ UNCHANGED <<mode, stack, sock, response, timeout_counter, pending, wire, empty_reads, handles, log, result, published>>
    /\ UNCHANGED parser

(***************************************************************************)
(* main: the poll loop.                                                    *)
(***************************************************************************)
NotPublished == [done |-> FALSE, data |-> <<>>]

\* while True: get_power(...), which calls network_command(device, "pwr") or
\* serial_command(device, "pwr"). Nothing of an iteration outlives it, and
\* the lines earlier iterations printed are not kept.
Poll ==
    /\ mpc = "loop"
    /\ mpc' = "command"
    /\ Call(<<>>, <<>>, <<>>, CmdPwr, DefaultRetries, TRUE, "call")
    /\ result' = NoResult
    /\ published' = NotPublished
    /\ presponse' = <<>>
    /\ rowno' = 0
    /\ colstart' = <<>>
    /\ headers' = <<>>
    /\ items' = <<>>
    /\ UNCHANGED <<mode, handles>>

\* The command function returns its payload to get_power, or raises through
\* get_power and main.
Respond ==
    /\ mpc = "command"
    /\ Len(stack) = 1
    /\ Top.pc \in {"return", "raise"}
    /\ stack' = <<>>
    /\ result' = pending
    /\ pending' = NoPending
    /\ IF pending.kind = "return"
       THEN /\ presponse' = pending.value
            /\ mpc' = "header"
       ELSE /\ mpc' = "crashed"
            /\ UNCHANGED presponse
    /\ UNCHANGED <<mode, sock, response, timeout_counter, wire, empty_reads, handles, log, stdout, rowno, colstart, headers, items, published>>

\* send_data(client, mqtt_topic, data); time.sleep(sleep_iteration)
\* What is published stands for the JSON text of the records.
send_data ==
    /\ mpc = "publish"
    /\ \/ /\ published' = [done |-> TRUE, data |-> items]
          /\ mpc' = "loop"
          /\ UNCHANGED result
       \/ \* client.publish raises: RuntimeError("Error sending data to mqtt server")
          /\ mpc' = "crashed"
          /\ result' = [kind |-> "raise", value |-> <<>>, cause |-> "publish"]
          /\ UNCHANGED published
    /\ UNCHANGED <<mode, stack, sock, response, timeout_counter, pending, wire, empty_reads, handles, log, stdout>>
    /\ UNCHANGED parser

(***************************************************************************)
(* The program: either main's poll loop, or one direct call of a command   *)
(* function (as send_cmd.py makes) with any retries and checkframe.        *)
(***************************************************************************)
Idle ==
    /\ stack = <<>>
    /\ sock = "unbound"
    /\ response = <<>>
    /\ timeout_counter = 0
    /\ pending = NoPending
    /\ wire = <<>>
    /\ empty_reads = 0
    /\ handles = 0
    /\ log = <<>>
    /\ stdout = <<>>
    /\ result = NoResult

Unparsed ==
    /\ presponse = <<>>
    /\ rowno = 0
    /\ colstart = <<>>
    /\ headers = <<>>
    /\ items = <<>>
    /\ published = NotPublished

InitMain ==
    /\ mode \in {"network", "serial"}
    /\ mpc = "loop"
    /\ Idle
    /\ Unparsed

InitCall ==
    /\ mode \in {"network", "serial"}
    /\ mpc = "call"
    /\ \E retries \in 0..MaxRetries, checkframe \in BOOLEAN :
        /\ stack = <<[command |-> CmdPwr, retries |-> retries, checkframe |-> checkframe, pc |-> "open"]>>
        /\ log = <<[command |-> CmdPwr, retries |-> retries, checkframe |-> checkframe, via |-> "call", outcome |-> "run", value |-> <<>>]>>
    /\ stdout = <<Sending(CmdPwr)>>
    /\ sock = "unbound"
    /\ response = <<>>
    /\ timeout_counter = 0
    /\ pending = NoPending
    /\ wire = <<>>
    /\ empty_reads = 0
    /\ handles = 0
    /\ result = NoResult
    /\ Unparsed

Init == InitMain \/ InitCall

Next ==
    \/ Open_network
    \/ Open_serial
    \/ Send_network
    \/ Send_serial
    \/ Read_network
    \/ Read_serial
    \/ Finish
    \/ Except
    \/ Finally
    \/ Recover
    \/ Retry
    \/ Unwind
    \/ Exit
    \/ Poll
    \/ Respond
    \/ ParseHeader
    \/ ParseRow
    \/ ParseReturn
    \/ send_data

Spec == Init /\ [][Next]_vars

(***************************************************************************)
(* The parser on its own: get_power's try block applied to a response      *)
(* text made of one of a few header lines and up to MaxRows data rows.     *)
(***************************************************************************)
\* Number of data rows of the tables the parser is run on.
MaxRows == 2

\* Header lines: as in the documented example, ending in a carriage return
\* as the device sends them, with a Coulomb column, starting with a space,
\* and with Base.St as last column.
HeaderLines ==
    { <<"B", "a", "s", "e", ".", "S", "t", " ", "P", "o", "w", "e", "r", " ", "V", "o", "l", "t">>,
      <<"B", "a", "s", "e", ".", "S", "t", " ", "P", "o", "w", "e", "r", " ", "V", "o", "l", "t", "\r">>,
      <<"P", "o", "w", "e", "r", " ", " ", "B", "a", "s", "e", ".", "S", "t", " ", "C", "o", "u", "l", "o", "m", "b", " ", "\r">>,
      <<" ", "B", "a", "s", "e", ".", "S", "t", " ", "P", "o", "w", "e", "r">>,
      <<"V", "o", "l", "t", " ", " ", "B", "a", "s", "e", ".", "S", "t", "\r">> }

\* Data rows, some ending in a carriage return, one with a Coulomb cell that
\* has no unit, one with an underscore between digits, one empty.
RowLines ==
    { <<"N", "o", "r", "m", "a", "l", " ", " ", "1", "2", "0", " ", " ", " ", "4", "8", "0">>,
      <<"A", "b", "s", "e", "n", "t", " ", " ", "-", " ", " ", " ", " ", " ", "-">>,
      <<"N", "o", "r", "m", "a", "l", " ", " ", "1", "2", "0", " ", " ", " ", "4", "8", "0", "\r">>,
      <<"4", "8", "0", " ", " ", " ", "A", "b", "s", "e", "n", "t">>,
      <<"1", "2", "0", " ", " ", " ", " ", "C", "h", "a", "r", "g", "e", " ", " ", "4", "5", "0", "0", "C", " ", " ", "\r">>,
      <<"1", "_", "0", " ", " ", " ", " ", "A", "b", "s", "e", "n", "t", " ", " ", "4", "5", "C", "\r">>,
      <<"1", "2", "0", " ", " ", " ", " ", "N", "o", "r", "m", "a", "l", " ", " ", "4", "5", "0", "0", " ", " ", " ", "\r">>,
      <<"1", "_", "0", " ", " ", " ", " ", "N", "o", "r", "m", "a", "l", " ", " ", "4", "5", "C", " ", " ", " ", " ", "\r">>,
      <<>> }

RECURSIVE JoinLines(_, _)
JoinLines(head, rows) ==
    IF rows = <<>> THEN head ELSE JoinLines(head \o <<"\n">> \o rows[1], Tail(rows))

ParseInputs ==
    {JoinLines(h, rows) : h \in HeaderLines, rows \in UNION {[1..k -> RowLines] : k \in 0..MaxRows}}

InitParse ==
    /\ mode = "network"
    /\ mpc = "header"
    /\ Idle
    /\ presponse \in ParseInputs
    /\ rowno = 0
    /\ colstart = <<>>
    /\ headers = <<>>
    /\ items = <<>>
    /\ published = NotPublished

NextParse ==
    \/ ParseHeader
    \/ ParseRow
    \/ ParseReturn

SpecParse == InitParse /\ [][NextParse]_vars

(***************************************************************************)
(* Properties of the command functions.                                    *)
(***************************************************************************)
\* What the device sent in answer to the running call: read or still unread.
Answer == response \o wire

\* The running call is past its read loop because the terminator was seen.
TerminatorSeen ==
    /\ Len(stack) > 0
    /\ Top.pc \in {"except", "finally"}
    /\ Contains(response, mark_end(Top.checkframe))

\* The running framed call got the well-formed answer for payload p, and
\* hands back exactly p as text.
Delivered(p) == pending.kind = "return" /\ pending.value = Decode(p)

WellFormedFor(p) == TerminatorSeen /\ Top.checkframe /\ Answer = Frame(Top.command, p)

\* END occurs in the answer only as its last bytes.
EndOnlyLast(a) == ~Contains(SubSeq(a, 1, Len(a) - 1), MARK_END)

\* C1 as stated: for every command and text payload, a framed call that is
\* answered with command + BEGIN + payload + END returns exactly the payload
\* as text, however the answer is split across reads, also when the payload
\* holds the END or PROMPT bytes.
C1_AnyPayload ==
    \A p \in Payloads : (Decodable(p) /\ WellFormedFor(p)) => Delivered(p)

\* C1 as amended: the same, for answers in which END occurs only as the last
\* bytes (a payload may hold PROMPT, but neither END nor the part of END that
\* the last two bytes of BEGIN complete).
C1_PayloadReturned ==
    \A p \in Payloads :
        (Decodable(p) /\ WellFormedFor(p) /\ EndOnlyLast(Frame(Top.command, p))) => Delivered(p)

\* A framed call returns the payload that holds PROMPT, after idle reads
\* between the chunks.
C1_Witness ==
    /\ WellFormedFor(PayloadWithPrompt)
    /\ Delivered(PayloadWithPrompt)
    /\ timeout_counter > 0

\* The calls of the real command, and the recovery probes, in order.
Reals == SelectSeq(log, LAMBDA e : e.via # "probe")

Probes == SelectSeq(log, LAMBDA e : e.via = "probe")

\* The outermost call is about to return or raise to its caller.
Leaving == Len(stack) = 1 /\ Top.pc \in {"return", "raise"}

Returns(value) == pending = [kind |-> "return", value |-> value, cause |-> "none"]

IsProbe(e) == e.via = "probe" /\ e.command = CmdProbe /\ e.retries = 0 /\ ~e.checkframe

\* C2: a call with retries = 1 whose first attempt fails makes exactly one
\* recovery probe (empty command, unframed, retries 0) and then one more
\* attempt of the same command; when that attempt succeeds the call returns
\* that attempt's payload.
C2_RetryOnce ==
    (Leaving /\ log[1].retries = 1 /\ log[1].outcome = "fail") =>
        /\ Len(log) = 3
        /\ IsProbe(log[2])
        /\ log[3].via = "retry"
        /\ log[3].command = log[1].command
        /\ log[3].outcome = "ok" => Returns(log[3].value)

\* The first attempt failed, the probe was made, the retry succeeded.
C2_Witness ==
    /\ Leaving
    /\ log[1].retries = 1
    /\ log[1].outcome = "fail"
    /\ Len(log) = 3
    /\ log[3].outcome = "ok"
    /\ pending.kind = "return"

\* C3: a call with retries = n attempts the real command at most n+1 times
\* and the probe at most n times; a probe is only made by a failed attempt
\* of the real command and is followed by nothing but that attempt's retry
\* with one retry less; a call raises only with no retries left, and the
\* outermost call raises CommandFailed(command) only when all n+1 attempts
\* have failed.
C3_Budget ==
    log # <<>> =>
        /\ Len(Reals) <= log[1].retries + 1
        /\ Len(Probes) <= log[1].retries
        /\ \A i \in 1..Len(log) :
            /\ log[i].retries >= 0
            /\ log[i].via = "call" => i = 1
            /\ log[i].via = "probe" => i > 1 /\ log[i - 1].via # "probe" /\ log[i - 1].outcome = "fail"
            /\ log[i].via = "retry" => i > 2 /\ log[i - 1].via = "probe" /\ log[i].retries = log[i - 2].retries - 1
        /\ (Len(stack) > 0 /\ Top.pc = "raise") =>
            /\ pending.kind = "raise"
            /\ log[Len(log)].retries = 0
            /\ log[Len(log)].outcome = "fail"
        /\ (Leaving /\ Top.pc = "raise") =>
            /\ pending.value = log[1].command
            /\ Len(Reals) = log[1].retries + 1
            /\ \A i \in 1..Len(Reals) : Reals[i].outcome = "fail"

\* A call with retries to spend raises after spending them all.
C3_Witness ==
    /\ Leaving
    /\ Top.pc = "raise"
    /\ log[1].retries >= 1
    /\ Len(Reals) = log[1].retries + 1
    /\ Len(Probes) = log[1].retries

\* C4: the idle counter counts every read that yields no data, data never
\* resets it, and no attempt makes more than 6 such reads: with the
\* terminator still missing after the sixth, the attempt raises.
C4_IdleCounted ==
    /\ timeout_counter = empty_reads
    /\ empty_reads <= MaxIdle + 1
    /\ (Len(stack) > 0 /\ Top.pc = "except" /\ pending.cause = "timeout") => empty_reads = MaxIdle + 1

\* The frame check of C5, spelled out on the trimmed buffer.
Trimmed == RStripBytes(response)

HasPrefix == SubSeq(Trimmed, 1, Len(Top.command) + Len(MARK_BEGIN)) = Encode(Top.command) \o MARK_BEGIN

HasSuffix == Len(Trimmed) >= Len(MARK_END) /\ SubSeq(Trimmed, Len(Trimmed) - Len(MARK_END) + 1, Len(Trimmed)) = MARK_END

BadFrame ==
    /\ Len(stack) = 1
    /\ Top.checkframe
    /\ Top.retries = 0
    /\ Top.pc # "read"
    /\ Contains(response, MARK_END)
    /\ ~(HasPrefix /\ HasSuffix)

\* C5: a framed call with retries = 0 that has seen END in a buffer whose
\* trimmed form does not both start with command + BEGIN and end with END
\* never returns a payload: the corrupt frame is raised as the failure of
\* the command.
C5_CorruptRaises ==
    BadFrame =>
        /\ pending.cause = "corrupt"
        /\ Top.pc = "except" => pending.kind = "exc"
        /\ Top.pc \in {"finally", "raise"} => (pending.kind = "raise" /\ pending.value = Top.command)
        /\ Top.pc \in {"except", "finally", "raise"}

\* A frame with bytes after END has been raised to the caller's side.
C5_Witness ==
    /\ BadFrame
    /\ Top.pc = "raise"
    /\ HasPrefix
    /\ ~HasSuffix

\* C6: a retry is the same call with one retry less: same command, same
\* checkframe.
C6_RetryKeepsFraming ==
    \A i \in 1..Len(log) :
        log[i].via = "retry" =>
            /\ log[i].command = log[1].command
            /\ log[i].checkframe = log[1].checkframe
            /\ log[i].retries = log[i - 2].retries - 1

\* The entry of log the running call made itself (a call resumed by its
\* retry shares the retry's entry: the retry's outcome is its own).
Last == log[Len(log)]

\* C7: a handle is open only inside the try block of the running call, so
\* at most one is open at a time; once the finally clause has run it is
\* closed, so none is open during the pause, the probe, the retry or after
\* the call; and whether close() succeeded, failed or had nothing to close,
\* what the call does next is what the attempt decided: return its value,
\* raise, or recover.
C7_HandleScoped ==
    /\ handles \in {0, 1}
    /\ handles = 1 <=> (Len(stack) > 0 /\ sock = "open")
    /\ (Len(stack) > 0 /\ sock = "open") => Top.pc \in {"send", "read", "except", "finally"}
    /\ (Len(stack) > 0 /\ Top.pc \in {"open", "send", "read"}) => sock \in {"unbound", "open"}
    /\ (Len(stack) > 0 /\ Top.pc \in {"return", "raise", "recover"}) =>
        /\ sock \in {"unbound", "closed", "close_error"}
        /\ Last.outcome = "ok" => (Top.pc = "return" /\ Returns(Last.value))
        /\ (Last.outcome = "fail" /\ Last.retries = 0) => (Top.pc = "raise" /\ pending.kind = "raise")
        /\ (Last.outcome = "fail" /\ Last.retries > 0) => (Top.pc = "recover" /\ pending = NoPending)
    /\ stack = <<>> => handles = 0

\* close() reported an error after a successful attempt, and the call still
\* returns the attempt's value.
C7_Witness ==
    /\ Len(stack) > 0
    /\ Top.pc = "return"
    /\ sock = "close_error"
    /\ handles = 0
    /\ Returns(Last.value)
    /\ Len(log) = 3

\* C8: the probe is the empty command, unframed, with retries 0; whatever
\* becomes of it the retry follows, and what the outermost call returns or
\* raises is what its last retry returned or raised.
C8_ProbeBestEffort ==
    /\ \A i \in 1..Len(log) : log[i].via = "probe" => IsProbe(log[i])
    /\ \A i \in 1..Len(log) :
        (log[i].via = "probe" /\ log[i].outcome # "run") =>
            \/ i < Len(log) /\ log[i + 1].via = "retry"
            \/ i = Len(log) /\ Len(stack) > 0 /\
                 \/ Top.pc = "retry"
                 \/ Len(stack) > 1 /\ stack[Len(stack) - 1].pc = "probe_wait"
    /\ (Leaving /\ Probes # <<>>) =>
        /\ Last.via = "retry"
        /\ Last.outcome = "ok" => Returns(Last.value)
        /\ Last.outcome = "fail" => (pending.kind = "raise" /\ pending.value = log[1].command)

\* The probe itself succeeded (it returned the prompt it provoked) and the
\* call nevertheless fails, because the retry failed.
C8_Witness ==
    /\ Leaving
    /\ Len(log) = 3
    /\ log[2].outcome = "ok"
    /\ log[3].outcome = "fail"
    /\ pending.kind = "raise"

(***************************************************************************)
(* Properties of the parser.                                               *)
(***************************************************************************)
TextNormal == <<"N", "o", "r", "m", "a", "l">>

\* {"Base.St": "Normal", "Power": 120, "Volt": 480}
ExampleRecord ==
    [k \in {TextBaseSt, TextPower, TextVolt} |->
        CASE k = TextBaseSt -> StrVal(TextNormal)
          [] k = TextPower  -> IntVal(120)
          [] OTHER          -> IntVal(480)]

\* C9: the header "Base.St Power Volt" and the row "Normal  120   480" give
\* one record, keyed by every full header token, the last included, with the
\* full cell texts as values and the numeric fields as integers.
C9_Example ==
    (presponse = TextTable /\ mpc \in {"publish", "crashed"}) =>
        (mpc = "publish" /\ items = <<ExampleRecord>>)

\* The table as its reader sees it: a column starts where a header token
\* starts and ends where the next one starts, or at the end of the line.
TokenStarts(line) ==
    {i \in 1..Len(line) : line[i] \notin TextSpace /\ (i = 1 \/ line[i - 1] \in TextSpace)}

TokenAt(line, i) ==
    LET ends == {j \in i..Len(line) : j = Len(line) \/ line[j + 1] \in TextSpace}
    IN  SubSeq(line, i, CHOOSE j \in ends : \A k \in ends : j <= k)

\* Where the Base.St column starts in the header (an index from 1), and where
\* the next column starts.
StatusStart(header) == CHOOSE i \in TokenStarts(header) : TokenAt(header, i) = TextBaseSt

StatusEnd(header, row) ==
    LET later == {i \in TokenStarts(header) : i > StatusStart(header)}
    IN  IF later = {} THEN Len(row) ELSE (CHOOSE i \in later : \A j \in later : i <= j) - 1

\* The text a row holds in the Base.St column.
StatusCell(header, row) == StripText(SubSeq(row, StatusStart(header), StatusEnd(header, row)))

\* The row's cells start at the header's column offsets and stay inside
\* their columns.
Aligned(header, row) ==
    /\ TokenStarts(row) = TokenStarts(header)
    /\ Len(row) >= Len(RStripText(header)) => \A i \in (Len(RStripText(header)) + 1)..Len(row) : row[i] \in TextSpace

HasStatus(header) == \E i \in TokenStarts(header) : TokenAt(header, i) = TextBaseSt

\* The rows of the response that are not marked Absent, in order.
Present == SelectSeq(Tail(Lines), LAMBDA row : StatusCell(Lines[1], row) # TextAbsent)

\* C10: when a response parses, the output holds one record for each data
\* row whose Base.St cell is not "Absent", in the order of the rows, and none
\* for the rows whose cell is "Absent".
C10_AbsentFiltered ==
    (/\ mpc = "publish"
     /\ HasStatus(Lines[1])
     /\ \A i \in 2..Len(Lines) : Aligned(Lines[1], Lines[i])) =>
        /\ Len(items) = Len(Present)
        /\ \A i \in 1..Len(items) : items[i][TextBaseSt] # StrVal(TextAbsent)

(***************************************************************************)
(* Properties of the coercions. The row get_power handled last is          *)
(* Lines[rowno]; when its Base.St cell is not "Absent", the last record of *)
(* items is the record made of it.                                         *)
(***************************************************************************)
Processed == mpc \in {"rows", "publish"} /\ rowno >= 2

\* The cells of the row handled last, by header, before any coercion.
RawOf(line) == Zip(headers, [i \in 1..Len(colstart) |-> getcell(colstart, line, i - 1).v])

LastRaw == RawOf(Lines[rowno])

Emitted == Processed /\ LastRaw[TextBaseSt].s # TextAbsent

LastItem == items[Len(items)]

AllDigits(s) == s # <<>> /\ \A i \in 1..Len(s) : s[i] \in DigitSet

\* Digits followed by one unit character.
DigitsUnit(c) == Len(c) >= 2 /\ AllDigits(SubSeq(c, 1, Len(c) - 1)) /\ c[Len(c)] \notin DigitSet

\* get_power raised although the cells of the row it was at could be read and
\* the record had its Base.St: a coercion raised.
CoercionRaised ==
    /\ mpc = "crashed"
    /\ rowno >= 1
    /\ CellsOk(Cells(colstart, Lines[rowno + 1]))
    /\ TextBaseSt \in {headers[i] : i \in 1..Len(headers)}

\* C11: in an emitted record a Coulomb cell of digits and one unit character
\* is the integer of the digits; any other Coulomb cell (no unit character,
\* as in "4500", or no number at all) keeps its text; no coercion raises.
C11_CoulombCoerced ==
    /\ ~CoercionRaised
    /\ (Emitted /\ TextCoulomb \in DOMAIN LastRaw) =>
        LET c == LastRaw[TextCoulomb].s
        IN  IF DigitsUnit(c)
            THEN LastItem[TextCoulomb] = IntVal(DecimalValue(SubSeq(c, 1, Len(c) - 1)))
            ELSE LastItem[TextCoulomb] = StrVal(c)

\* The part of C11 the code has: digits and one unit character give the
\* integer, and a cell that is no number keeps its text.
C11_UnitStripped ==
    /\ ~CoercionRaised
    /\ (Emitted /\ TextCoulomb \in DOMAIN LastRaw) =>
        LET c == LastRaw[TextCoulomb].s
        IN  /\ DigitsUnit(c) => LastItem[TextCoulomb] = IntVal(DecimalValue(SubSeq(c, 1, Len(c) - 1)))
            /\ (\A i \in 1..Len(c) : c[i] \notin DigitSet) => LastItem[TextCoulomb] = StrVal(c)

\* A Coulomb cell without unit has lost its last digit.
C11_Truncated ==
    /\ Emitted
    /\ TextCoulomb \in DOMAIN LastRaw
    /\ LastRaw[TextCoulomb].s = <<"4", "5", "0", "0">>
    /\ LastItem[TextCoulomb] = IntVal(450)

NumericSet == {NumericFields[i] : i \in 1..Len(NumericFields)}

\* A decimal integer: digits, with one sign before them at most.
IsDecimal(c) ==
    \/ AllDigits(c)
    \/ Len(c) >= 2 /\ c[1] \in {"+", "-"} /\ AllDigits(Tail(c))

DecimalOf(c) ==
    IF c[1] = "-" THEN 0 - DecimalValue(Tail(c))
    ELSE IF c[1] = "+" THEN DecimalValue(Tail(c))
    ELSE DecimalValue(c)

\* The rows handled so far whose Base.St cell is not "Absent".
Kept == SelectSeq(SubSeq(Lines, 2, rowno), LAMBDA row : RawOf(row)[TextBaseSt].s # TextAbsent)

\* C12: in an emitted record each of the nine numeric fields that the header
\* has is the integer its cell spells when the cell is a decimal integer, and
\* the cell's text when it is not; a numeric field the header lacks is not
\* added; every other field but Coulomb is the cell's text; no coercion
\* raises and no record is dropped.
C12_NumericCoerced ==
    /\ ~CoercionRaised
    /\ Processed => Len(items) = Len(Kept)
    /\ Emitted =>
        /\ DOMAIN LastItem = DOMAIN LastRaw
        /\ \A k \in DOMAIN LastRaw :
            LET c == LastRaw[k].s
            IN  IF k \in NumericSet
                THEN LastItem[k] = IF IsDecimal(c) THEN IntVal(DecimalOf(c)) ELSE StrVal(c)
                ELSE k # TextCoulomb => LastItem[k] = StrVal(c)

\* The part of C12 the code has: the same, for cells without an underscore.
C12_PlainCells ==
    /\ ~CoercionRaised
    /\ Processed => Len(items) = Len(Kept)
    /\ Emitted =>
        /\ DOMAIN LastItem = DOMAIN LastRaw
        /\ \A k \in DOMAIN LastRaw :
            LET c == LastRaw[k].s
            IN  IF k \in NumericSet
                THEN (\A i \in 1..Len(c) : c[i] # "_") =>
                        LastItem[k] = IF IsDecimal(c) THEN IntVal(DecimalOf(c)) ELSE StrVal(c)
                ELSE k # TextCoulomb => LastItem[k] = StrVal(c)

\* A cell that is no decimal integer has become an integer.
C12_Underscore ==
    /\ Emitted
    /\ TextPower \in DOMAIN LastRaw
    /\ LastRaw[TextPower].s = <<"1", "_", "0">>
    /\ LastItem[TextPower] = IntVal(10)

(***************************************************************************)
(* Properties of the poll loop.                                            *)
(***************************************************************************)
InMain == mpc \in {"loop", "command", "header", "rows", "publish", "crashed"}

\* The command of this iteration returned, and its value is what is parsed.
Executed == result.kind = "return" /\ presponse = result.value /\ log[Len(log)].outcome = "ok"

\* get_power went through every line of the response.
Parsed == rowno = Len(Lines)

\* C13: something is published only once the command of the iteration has
\* returned and its table has been parsed to the end, and it is the records
\* of that iteration; the loop comes round only by publishing; when the
\* command fails with its retries spent, or the parse or the publish fails,
\* the error leaves the loop: nothing is published for the iteration and
\* nothing runs afterwards.
C13_PublishOrCrash ==
    InMain =>
        /\ published.done => (mpc = "loop" /\ Executed /\ Parsed /\ published.data = items)
        /\ (mpc = "loop" /\ log # <<>>) => published.done
        /\ mpc \in {"header", "rows", "publish"} => Executed
        /\ mpc = "publish" => Parsed
        /\ mpc = "crashed" =>
            /\ ~published.done
            /\ result.kind = "raise"
            /\ stack = <<>>
            /\ result.cause \notin {"parse", "publish"} =>
                 (result.value = CmdPwr /\ \A i \in 1..Len(Reals) : Reals[i].outcome = "fail")
            /\ ~ENABLED Next

\* An iteration has published the record it parsed from the device's table.
C13_Witness ==
    /\ mpc = "loop"
    /\ published.done
    /\ Len(published.data) = 1
    /\ presponse = TextTable

\* The loop has ended on a parse error.
C13_ParseCrash == mpc = "crashed" /\ result.cause = "parse" /\ ~published.done

\* What makes get_power's try block raise: a line of the response is empty
\* (IndexError), or there is a data row and no header cell reads Base.St
\* (KeyError).
EmptyLine == \E i \in 1..Len(Lines) : Lines[i] = <<>>

NoStatus == Len(Lines) >= 2 /\ TextBaseSt \notin {headers[i] : i \in 1..Len(headers)}

Calls == SelectSeq(log, LAMBDA e : e.via = "call")

\* C14: an exception in get_power's try block is raised again as the parse
\* error, which carries the response text the command returned; after it
\* nothing runs, so the parse is not tried again and no command is sent: one
\* invocation of get_power makes one call of the command function, and none
\* while or after it parses; a failure of the command is raised as the
\* command's failure, not as a parse error.
C14_ParseErrorFinal ==
    InMain =>
        /\ log # <<>> => Len(Calls) = 1
        /\ mpc \in {"header", "rows", "publish", "crashed"} => (stack = <<>> /\ handles = 0)
        /\ mpc \in {"rows", "publish"} => ~NoStatus \/ rowno = 1
        /\ mpc = "publish" => (~EmptyLine /\ ~NoStatus)
        /\ (mpc = "crashed" /\ result.cause = "parse") =>
            /\ result.kind = "raise"
            /\ result.value = presponse
            /\ Last.outcome = "ok"
            /\ presponse = Last.value
            /\ EmptyLine \/ NoStatus
            /\ ~published.done
            /\ ~ENABLED Next
        /\ (mpc = "crashed" /\ Last.outcome = "fail") =>
            /\ result = [kind |-> "raise", value |-> CmdPwr, cause |-> result.cause]
            /\ result.cause \notin {"parse", "publish", "none"}
            /\ presponse = <<>>

\* The command returned a table without Base.St, and get_power has raised the
\* parse error with that text after one call of the command function.
C14_Witness ==
    /\ mpc = "crashed"
    /\ result = [kind |-> "raise", value |-> TextNoStatus, cause |-> "parse"]
    /\ Len(log) = 1

\* The command failed with its retries spent: no parse error.
C14_CommandFailed ==
    /\ mpc = "crashed"
    /\ Len(log) = 3
    /\ result.kind = "raise"
    /\ result.value = CmdPwr
    /\ result.cause = "corrupt"

(***************************************************************************)
(* Properties of the status lines.                                         *)
(***************************************************************************)
SendingLines == SelectSeq(stdout, LAMBDA l : l.text = Sending(<<>>).text)

ErrorLines == SelectSeq(stdout, LAMBDA l : l.text = Retrying(<<>>, 0).text)

Failed == SelectSeq(log, LAMBDA e : e.outcome = "fail")

\* The attempts and the retry decisions are reported: one "Sending command"
\* line per call, in the order of the calls, and one "Error sending command
\* ..., n retries remaining" line per recovery.
AttemptsReported ==
    /\ Len(SendingLines) = Len(log)
    /\ \A i \in 1..Len(log) : SendingLines[i] = Sending(log[i].command)
    /\ Len(ErrorLines) = Len(Probes)
    /\ \A i \in 1..Len(ErrorLines) : ErrorLines[i].args[1] = log[1].command

\* C15: every attempt (first, probe, retry), every retry decision and every
\* failure, the last one with no retries left included, is reported by a
\* status line, and the line is printed before the exception leaves the call:
\* when a call raises, each failed call so far has its line.
C15_StatusBeforeRaise ==
    /\ AttemptsReported
    /\ (Len(stack) > 0 /\ Top.pc = "raise") => Len(ErrorLines) = Len(Failed)

\* The part of C15 the code has: attempts and retry decisions are reported,
\* and a failure with retries left is reported before the probe is called.
C15_RetriesReported ==
    /\ AttemptsReported
    /\ \A i \in 1..Len(log) :
        log[i].via = "probe" =>
            \E j \in 2..Len(stdout) :
                /\ stdout[j] = Sending(CmdProbe)
                /\ stdout[j - 1] = Retrying(log[i - 1].command, log[i - 1].retries)

\* A call without retries raises with nothing printed but "Sending command".
C15_SilentRaise ==
    /\ Leaving
    /\ Top.pc = "raise"
    /\ stdout = <<Sending(CmdPwr)>>

(***************************************************************************)
(* Properties of the read loop and of the frame.                           *)
(***************************************************************************)
\* A turn of the read loop that got no data, whether the read timed out or
\* returned zero bytes.
EmptyRead == Len(stack) > 0 /\ Top.pc = "read" /\ empty_reads' = empty_reads + 1

\* C16: on both transports a read that yields no data, a read of zero bytes
\* included, is made only while the idle counter is at most 5 and adds one to
\* it; so an attempt makes at most 6 such reads, also on a channel that is
\* readable at end-of-file, and ends after a bounded number of reads.
C16_ZeroReadCounted ==
    [][EmptyRead => (timeout_counter <= MaxIdle /\ timeout_counter' = timeout_counter + 1)]_vars

\* The same for network_command alone, which the code has.
C16_NetworkCounted ==
    [][(mode = "network" /\ EmptyRead) => (timeout_counter <= MaxIdle /\ timeout_counter' = timeout_counter + 1)]_vars

\* serial_command has made more reads without data than the idle limit
\* allows, and is still reading.
C16_StillReading ==
    /\ mode = "serial"
    /\ Running("read")
    /\ empty_reads > MaxIdle + 1
    /\ timeout_counter = 0

\* A framed call has accepted its buffer and is about to return a payload.
Accepted == Len(stack) > 0 /\ Top.checkframe /\ Top.pc = "finally" /\ pending.kind = "return"

\* C17: when a framed call accepts a frame and returns payload P, the trimmed
\* buffer is exactly command + BEGIN + P + END, so it is at least as long as
\* the three fixed parts: a buffer in which the end of BEGIN is also the
\* start of END is not accepted.
C17_ExactFrame ==
    Accepted =>
        /\ Trimmed = Encode(Top.command) \o MARK_BEGIN \o Encode(pending.value) \o MARK_END
        /\ Len(Trimmed) >= Len(Top.command) + Len(MARK_BEGIN) + Len(MARK_END)

\* The same for buffers long enough to hold the three parts side by side,
\* which the code has.
C17_LongEnough ==
    (Accepted /\ Len(Trimmed) >= Len(Top.command) + Len(MARK_BEGIN) + Len(MARK_END)) =>
        Trimmed = Encode(Top.command) \o MARK_BEGIN \o Encode(pending.value) \o MARK_END

\* The buffer command + "\n\r@\r" + END has been accepted with an empty
\* payload.
C17_Overlap ==
    /\ Accepted
    /\ response = Encode(CmdPwr) \o SubSeq(MARK_BEGIN, 1, 4) \o MARK_END
    /\ pending.value = <<>>

(***************************************************************************)
(* Properties of the column boundaries.                                    *)
(***************************************************************************)
\* The header as the boundaries are inferred from it, and the offsets (from
\* 0) at which its space-delimited tokens start, in order.
HeaderText == RStripText(Lines[1])

SpaceTokenStarts(line) ==
    {i \in 0..(Len(line) - 1) : line[i + 1] # " " /\ (i = 0 \/ line[i] = " ")}

RECURSIVE Ascending(_)
Ascending(S) ==
    IF S = {} THEN <<>>
    ELSE LET m == CHOOSE x \in S : \A y \in S : x <= y
         IN  <<m>> \o Ascending(S \ {m})

HeaderDone == mpc \in {"rows", "publish"} \/ (mpc = "crashed" /\ rowno >= 1)

\* C18: the boundaries inferred from a header start at 0, never decrease,
\* stay within the header and, with the end of the line, cover it; each
\* boundary after the first is the offset at which a header token starts,
\* also when the header starts with spaces; there are as many columns as
\* space-delimited tokens; and they are those of the header of the response
\* at hand.
C18_Boundaries ==
    HeaderDone =>
        LET starts == Ascending(SpaceTokenStarts(HeaderText))
        IN  /\ colstart[1] = 0
            /\ \A i \in 1..(Len(colstart) - 1) : colstart[i] <= colstart[i + 1]
            /\ \A i \in 1..Len(colstart) : colstart[i] <= Len(Lines[1])
            /\ Len(colstart) = Len(starts)
            /\ \A i \in 2..Len(colstart) : colstart[i] = starts[i]

\* The same for headers that start with a token, which the code has.
C18_NoLeadingSpace ==
    (HeaderDone /\ HeaderText # <<>> /\ HeaderText[1] # " ") =>
        LET starts == Ascending(SpaceTokenStarts(HeaderText))
        IN  /\ colstart[1] = 0
            /\ \A i \in 1..(Len(colstart) - 1) : colstart[i] <= colstart[i + 1]
            /\ \A i \in 1..Len(colstart) : colstart[i] <= Len(Lines[1])
            /\ Len(colstart) = Len(starts)
            /\ \A i \in 2..Len(colstart) : colstart[i] = starts[i]

\* The header " Base.St Power" has its second boundary at 8, where no token
\* starts: Power starts at 9.
C18_Shifted ==
    /\ HeaderDone
    /\ Lines[1] = <<" ", "B", "a", "s", "e", ".", "S", "t", " ", "P", "o", "w", "e", "r">>
    /\ colstart = <<0, 8>>

====
